---- MODULE Spec2Model ----
(***************************************************************************)
(* Identity matching and consistency engine of Live-Face-Recognition:      *)
(* the embedding store (database/db_manager.py), the distance engine and   *)
(* matcher (modules/verifier.py), the voting stabilizer                    *)
(* (Verifier.verify_with_voting / reset_voting) and the live verification  *)
(* loops that drive it (main.py, gui_app.py), the /api/verify and          *)
(* /api/enroll endpoints (api.py), the GUI's panels and camera threads,    *)
(* the enrollment paths with their duplicate guard (gui_app.py, main.py,   *)
(* api.py; streamlit_app.py on a database of its own), the generated user  *)
(* ids (utils/helpers.py) and calculate_distance under each metric.        *)
(*                                                                         *)
(* Numbers.  The code computes in IEEE doubles.  The model computes in     *)
(* fixed point: a distance d is the integer d * Scale, a confidence c (a   *)
(* percentage) is the integer c * 100.  Embeddings are drawn from a small  *)
(* universe of integer vectors whose norms are integers and whose pairwise *)
(* cosine distances are exact multiples of 1/Scale, so no rounding occurs; *)
(* the 1e-10 guard of the cosine denominator is below the resolution and   *)
(* only its effect on a zero denominator is kept.                          *)
(***************************************************************************)
EXTENDS Integers, Sequences, FiniteSets, TLC

VARIABLES
    users,                 \* table users: rows in rowid order
    embeddings,            \* table embeddings: rows in id order
    threshold,             \* Verifier.threshold
    metric,                \* Verifier.metric
    verification_history,  \* Verifier.verification_history (deque, maxlen W)
    lastMatch,             \* the matcher call observed last, since the store last changed
    apiResponse,           \* the /api/verify response observed last, since the store last changed
    app,                   \* the program: "cli" or "gui" (they run the live session), "web"
    session,               \* the live loop: "idle", "running", "ended"
    camera_running,        \* gui_app: self.camera_running
    popup_shown,           \* gui_app: self._popup_shown
    btn_live_verify,       \* gui_app: state of the Live Verification button
    frame,                 \* what the last loop iteration did and handed to the display
    sinceReset,            \* history variable: raw matcher results appended since the last reset
    reported,              \* history variable: voting_status last returned since the last reset
    asked,                 \* history variable: the queries of the results in sinceReset
    sorter,                \* how the SQLite build orders rows whose ORDER BY keys are equal
    lastOp,                \* the store operation observed last and what it returned
    panel,                 \* gui_app: the panel on the grid
    btn_webcam,            \* gui_app: state of the Use Webcam button
    enrollment,            \* the enrollment form of each GUI process, the CLI's pending enrollment
    now,                   \* the wall clock datetime.now() reads, in ticks
    generated,             \* history variable: the user ids generated so far
    distanceCall           \* the calculate_distance call observed last

vars == << users, embeddings, threshold, metric, verification_history,
           lastMatch, apiResponse, app, session, camera_running, popup_shown,
           btn_live_verify, frame, sinceReset, reported, asked, sorter, lastOp,
           panel, btn_webcam, enrollment, now, generated, distanceCall >>

storeVars   == << users, embeddings >>
verifierCfg == << threshold, metric >>
helperVars  == << now, generated, distanceCall >>
hostVars    == << app, sorter >>
enrollVars  == << panel, btn_webcam, enrollment >>
liveVars    == << verification_history, hostVars, session, camera_running, popup_shown,
                 btn_live_verify, frame, sinceReset, reported, asked, enrollVars >>
matchVars   == << lastMatch, apiResponse, lastOp >>

(***************************************************************************)
(* Bounds of the model.                                                    *)
(***************************************************************************)
MaxEmbRows == 2     \* rows of the embeddings table
MaxClock   == 1     \* CURRENT_TIMESTAMP reads 0..MaxClock (seconds)
MaxFrames  == 6     \* votes appended between two resets
MaxSamples == 2     \* face images of one enrollment
MaxNow     == 3     \* the wall clock reads 0..MaxNow ticks
MaxIds     == 3     \* user ids generated

(***************************************************************************)
(* Program constants (config.py) and Python values.                        *)
(***************************************************************************)
Scale == 100 * 100                       \* fixed-point unit of a distance: 1/Scale
\* faulty variant: a verification threshold below the duplicate threshold
ThresholdBelowDuplicate == Scale \div 20
VERIFICATION_THRESHOLD == Scale \div 4   \* 0.25
DUPLICATE_THRESHOLD    == Scale \div 5   \* 0.20
DISTANCE_METRIC        == "cosine"
VERIFICATION_FRAMES    == 5
VERIFICATION_MAJORITY  == 3

None        == "None"      \* Python None where the other values are strings
NoOwner     == 0           \* owner_id None (account ids are 1, 2, ...)
NoEmbedding == << >>       \* embedding None
Inf         == 1000000     \* float('inf'): above every finite distance (at most 2 * Scale)

Clients  == {"g1", "g2"}   \* GUI processes open on the same database file
Enrollers == Clients \cup {"cli"}   \* and the CLI program
UserIds  == {"u1", "u2"}
NameOf   == [u \in UserIds |-> IF u = "u1" THEN "alice" ELSE "bob"]   \* the name each id enrolls with
Accounts == {1, 2}
Owners   == Accounts \cup {NoOwner}
ApiCallers == {1}          \* the account whose token the API requests carry

\* The embedding universe (5 components; the model's stand-in for 512).
\* Cosine distances: EA-EB 0.5, EA-EC 0.5, EA-ED 0.2, EB-EC 0.25, EB-ED 0.1, EC-ED 0.2.
EA == << 0, 0, 0, 0, 4 >>
EB == << 0, 2, 2, 2, 2 >>
EC == << 2, 0, 2, 2, 2 >>
ED == << 0, 1, 2, 2, 4 >>
Embeddings == {EA, EB, EC, ED}
StoredEmbeddings == {EB, ED}         \* the embeddings enrollments store

(***************************************************************************)
(* Distance engine: Verifier.calculate_distance.                           *)
(***************************************************************************)
RECURSIVE Dot(_, _)
Dot(a, b) == IF a = << >> THEN 0 ELSE Head(a) * Head(b) + Dot(Tail(a), Tail(b))

ISqrt(n) == CHOOSE r \in 0..n : r * r <= n /\ (r + 1) * (r + 1) > n

Norm(a) == ISqrt(Dot(a, a))

CosineDistance(e1, e2) ==
    LET dot_product == Dot(e1, e2)
        den         == Norm(e1) * Norm(e2)
        \* dot / (norm1 * norm2 + 1e-10): a zero norm makes dot zero too
        similarity  == IF den = 0 THEN 0 ELSE (Scale * dot_product) \div den
    IN  Scale - similarity

calculate_distance(embedding1, embedding2) ==
    IF embedding1 = NoEmbedding \/ embedding2 = NoEmbedding
    THEN Inf
    ELSE CosineDistance(embedding1, embedding2)

\* The metrics calculate_distance knows (lines 44-61)
Metrics == {"cosine", "euclidean", "euclidean_l2"}

\* floor of the square root of n < 2^31, by bisection
RECURSIVE SqrtBetween(_, _, _)
SqrtBetween(n, lo, hi) ==
    IF lo >= hi THEN lo
    ELSE LET mid == (lo + hi + 1) \div 2
         IN  IF mid * mid <= n THEN SqrtBetween(n, mid, hi)
             ELSE SqrtBetween(n, lo, mid - 1)
SqrtFloor(n) == SqrtBetween(n, 0, 46340)

\* numpy on 1-D arrays.  np.dot takes two arrays of the same length and
\* raises ValueError ("shapes not aligned") otherwise.  The elementwise
\* a - b broadcasts: arrays of the same length, or one of them of length 1,
\* which is repeated to the length of the other; any other pair raises
\* ValueError ("operands could not be broadcast together").
DotAligned(a, b) == Len(a) = Len(b)
Broadcasts(a, b) == Len(a) = Len(b) \/ Len(a) = 1 \/ Len(b) = 1
BroadcastLen(a, b) == IF Len(a) >= Len(b) THEN Len(a) ELSE Len(b)
Stretch(a, n) == IF Len(a) = n THEN a ELSE [i \in 1..n |-> a[1]]

\* a - b, both stretched to the common length
Minus(a, b) ==
    LET n == BroadcastLen(a, b)
    IN  [i \in 1..n |-> Stretch(a, n)[i] - Stretch(b, n)[i]]

\* a / (np.linalg.norm(a) + 1e-10), in units of 1/Scale
Normalized(a) ==
    [i \in 1..Len(a) |-> IF Norm(a) = 0 THEN 0 ELSE (a[i] * Scale) \div Norm(a)]

\* np.linalg.norm(e1 - e2), in units of 1/Scale, rounded down
EuclideanDistance(e1, e2) ==
    LET d == Minus(e1, e2) IN SqrtFloor(Dot(d, d) * Scale * Scale)

\* the same after both vectors were normalized (lines 56-59)
EuclideanL2Distance(e1, e2) ==
    LET d == Minus(Normalized(e1), Normalized(e2)) IN SqrtFloor(Dot(d, d))

\* what a call of calculate_distance does under metric m: it returns a
\* distance or numpy raises
Returned(distance) == [raised |-> None, distance |-> distance]
Raised(error)      == [raised |-> error, distance |-> Inf]

calculate_distance_outcome(m, embedding1, embedding2) ==
    IF embedding1 = NoEmbedding \/ embedding2 = NoEmbedding
    THEN Returned(Inf)                                        \* lines 38-39
    ELSE IF m = "cosine"
    THEN IF DotAligned(embedding1, embedding2)
         THEN Returned(CosineDistance(embedding1, embedding2))
         ELSE Raised("ValueError")
    ELSE IF m = "euclidean"
    THEN IF Broadcasts(embedding1, embedding2)
         THEN Returned(EuclideanDistance(embedding1, embedding2))
         ELSE Raised("ValueError")
    ELSE IF m = "euclidean_l2"
    THEN IF Broadcasts(embedding1, embedding2)
         THEN Returned(EuclideanL2Distance(embedding1, embedding2))
         ELSE Raised("ValueError")
    ELSE Raised("ValueError")                                 \* line 62: unknown metric

\* the vectors calculate_distance is called with: None, and arrays of 1, 2,
\* 3 and 5 components with integer norms
DistanceInputs ==
    {NoEmbedding, << 2 >>, << 0, 2 >>, << 2, 0 >>, << 1, 2, 2 >>, << 2, 2, 1 >>, EA, EB}

NoDistanceCall ==
    [called |-> FALSE, embedding1 |-> NoEmbedding, embedding2 |-> NoEmbedding,
     outcome |-> Returned(Inf)]

(***************************************************************************)
(* Matcher: Verifier.verify, one identity's stored vectors.                *)
(***************************************************************************)
\* faulty variant: the largest distance instead of the smallest
MaxOf(S) == CHOOSE m \in S : \A x \in S : m >= x

\* line 93: min(distances)
MinOf(S) == CHOOSE m \in S : \A x \in S : m <= x
MaxOf2(a, b) == IF a >= b THEN a ELSE b
MinOf2(a, b) == IF a <= b THEN a ELSE b

Distances(query_embedding, stored_embeddings) ==
    { calculate_distance(query_embedding, stored_embeddings[i]) :
        i \in 1..Len(stored_embeddings) }

\* confidence in hundredths of a percent
Confidence(min_distance) ==
    LET raw == IF min_distance >= Inf THEN 0
               ELSE IF metric = "cosine"
                    THEN ((threshold - min_distance) * 100 * 100) \div threshold
                    ELSE ((2 * threshold - min_distance) * 100 * 100) \div (2 * threshold)
    IN  MinOf2(100 * 100, MaxOf2(0, raw))

\* faulty variant: a distance equal to the threshold verifies
VerifiedFlagInclusive(min_distance) == min_distance <= threshold

\* line 106
VerifiedFlag(min_distance) == min_distance < threshold

verify(query_embedding, stored_embeddings) ==
    IF query_embedding = NoEmbedding \/ stored_embeddings = << >>
    THEN [verified |-> FALSE, distance |-> Inf, confidence |-> 0, user_id |-> None]
    ELSE LET min_distance == MinOf(Distances(query_embedding, stored_embeddings))
         IN  [verified   |-> VerifiedFlag(min_distance),
              distance   |-> min_distance,
              confidence |-> Confidence(min_distance)]

\* faulty variant: the result for "nothing to compare with" claims full confidence
NoMatchFullConfidence ==
    [verified |-> FALSE, distance |-> 1000000, confidence |-> 100 * 100,
     user_id |-> "None", user_name |-> "None"]

\* best_match before the scan (verifier.py:127-133)
NoMatch ==
    [verified |-> FALSE, distance |-> Inf, confidence |-> 0,
     user_id |-> None, user_name |-> None]

\* _reset_enrollment: no sample captured, the User ID entry empty; saving is
\* the user_id an enrollment has tested with user_exists and not yet stored
NoSession == [entry_user_id |-> "", captured_faces |-> << >>, accepted |-> << >>,
              saving |-> ""]

\* what the model records of the calls it observes; a change of the store
\* forgets the calls observed before it
NoCall == [called |-> FALSE, query |-> NoEmbedding, list |-> << >>, result |-> NoMatch]
NoResponse == [account |-> NoOwner, status |-> 0, kind |-> "none", result |-> NoMatch]
NoOp == [op |-> "none", user_id |-> None, returned |-> FALSE]
Unobserved == lastMatch' = NoCall /\ apiResponse' = NoResponse

(***************************************************************************)
(* Embedding store: DatabaseManager.                                       *)
(***************************************************************************)
user_exists(user_id) == \E i \in 1..Len(users) : users[i].user_id = user_id

\* SELECT ... FROM users [WHERE owner_id = ?]: the rows a query sees
UserRows(owner_id) ==
    SelectSeq(users, LAMBDA u : owner_id = NoOwner \/ u.owner_id = owner_id)

\* ORDER BY created_at DESC.  CURRENT_TIMESTAMP counts seconds; SQL does not
\* fix the order of rows of the same second, the sorter of the SQLite build
\* does: it hands them out in rowid order (SQLite 3.40) or in the reverse.
Sorters == {"rowid", "reverse"}

IsPermutation(p, n) == \A i, j \in 1..n : i # j => p[i] # p[j]

\* row a of the scan comes before row b in the sorted output
SortsBefore(rows, a, b, tie) ==
    \/ rows[a].created_at > rows[b].created_at
    \/ /\ rows[a].created_at = rows[b].created_at
       /\ IF tie = "rowid" THEN a < b ELSE a > b

OrderByCreatedAtDesc(rows, tie) ==
    LET n == Len(rows)
        p == CHOOSE q \in [1..n -> 1..n] :
                /\ IsPermutation(q, n)
                /\ \A i \in 1..n : \A j \in 1..n :
                      i < j => SortsBefore(rows, q[i], q[j], tie)
    IN  [i \in 1..n |-> rows[p[i]]]

get_all_users(owner_id) == OrderByCreatedAtDesc(UserRows(owner_id), sorter)

\* SELECT embedding FROM embeddings WHERE user_id = ?
RECURSIVE EmbeddingsOf(_, _)
EmbeddingsOf(rows, user_id) ==
    IF rows = << >> THEN << >>
    ELSE IF Head(rows).user_id = user_id
         THEN << Head(rows).embedding >> \o EmbeddingsOf(Tail(rows), user_id)
         ELSE EmbeddingsOf(Tail(rows), user_id)

get_embeddings(user_id) == EmbeddingsOf(embeddings, user_id)

(***************************************************************************)
(* Matcher: Verifier.verify_with_database, over the list get_all_users()   *)
(* returned.                                                               *)
(***************************************************************************)
\* faulty variant: once votes are held, a candidate at the same distance
\* replaces the best match
BetterOrTiedWhileVoting(result, best_match) ==
    \/ result.distance < best_match.distance
    \/ verification_history # << >> /\ result.distance = best_match.distance

\* line 149: the candidate replaces the best match so far
Better(result, best_match) == result.distance < best_match.distance

RECURSIVE ScanUsers(_, _, _)
ScanUsers(query_embedding, list, best_match) ==
    IF list = << >> THEN best_match
    ELSE LET user   == Head(list)
             embs   == get_embeddings(user.user_id)
             result == verify(query_embedding, embs)
         IN  IF embs = << >>
             THEN ScanUsers(query_embedding, Tail(list), best_match)
             ELSE ScanUsers(query_embedding, Tail(list),
                     IF Better(result, best_match)
                     THEN [verified   |-> result.verified,
                           distance   |-> result.distance,
                           confidence |-> result.confidence,
                           user_id    |-> user.user_id,
                           user_name  |-> user.name]
                     ELSE best_match)

\* line 125: users = db_manager.get_all_users(), no owner given
MatcherScope == NoOwner

verify_with_database(query_embedding, list) ==
    ScanUsers(query_embedding, list, NoMatch)

(***************************************************************************)
(* Store operations: DatabaseManager.add_user, add_embedding, delete_user. *)
(***************************************************************************)
\* faulty variant: INSERT OR REPLACE, the second row takes the place of the first
add_user_or_replace(user_id, name, owner_id, at) ==
    Append(SelectSeq(users, LAMBDA u : u.user_id # user_id),
           [user_id |-> user_id, name |-> name,
            owner_id |-> owner_id, created_at |-> at])

\* INSERT INTO users: the primary key user_id rejects a second row
\* (IntegrityError, add_user returns False); created_at defaults to
\* CURRENT_TIMESTAMP, here the argument at
add_user(user_id, name, owner_id, at) ==
    IF user_exists(user_id)
    THEN users
    ELSE Append(users, [user_id |-> user_id, name |-> name,
                        owner_id |-> owner_id, created_at |-> at])

\* INSERT INTO embeddings: the connection never enables foreign keys, so the
\* row is stored whether or not user_id names a user
add_embedding(user_id, embedding) ==
    Append(embeddings, [user_id |-> user_id, embedding |-> embedding])

\* faulty variant: the ownership check finds the row and does not compare its owner
DeleteAllowedAnyOwner(user_id, owner_id) ==
    owner_id = NoOwner \/ user_exists(user_id)

\* the ownership check of delete_user (lines 297-302)
DeleteAllowed(user_id, owner_id) ==
    owner_id = NoOwner
    \/ \E i \in 1..Len(users) :
          users[i].user_id = user_id /\ users[i].owner_id = owner_id

\* at: the second the clock shows when the row is inserted; the clock never
\* runs back, so no row of the table is younger.  Only the order of the
\* seconds is read (ORDER BY): the clock counts from the first row of the
\* table and skips the seconds in which nothing is inserted.
ClockReads(at) ==
    IF users = << >> THEN at = 0
    ELSE at \in {users[Len(users)].created_at, users[Len(users)].created_at + 1}

AddUser(user_id, name, owner_id, at) ==
    /\ at \in 0..MaxClock
    /\ ClockReads(at)
    /\ users' = add_user(user_id, name, owner_id, at)
    /\ lastOp' = [op |-> "add_user", user_id |-> user_id,
                  returned |-> ~user_exists(user_id)]
    /\ Unobserved
    /\ UNCHANGED << embeddings, verifierCfg, helperVars, liveVars >>

\* add_embedding(user_id, embedding): the row is stored and its id returned;
\* when SQLite raises (the file locked by another writer, the disk full) the
\* except branch returns None and nothing is stored (lines 351-353)
AddEmbedding(user_id, embedding, raises) ==
    /\ Len(embeddings) < MaxEmbRows
    /\ embeddings' = IF raises THEN embeddings ELSE add_embedding(user_id, embedding)
    /\ lastOp' = [op |-> "add_embedding", user_id |-> user_id,
                  returned |-> ~raises]
    /\ Unobserved
    /\ UNCHANGED << users, verifierCfg, helperVars, liveVars >>

\* faulty variant: the embeddings of the deleted identity stay
delete_user_keeps_embeddings(user_id) == embeddings

\* lines 304-318: DELETE FROM embeddings, DELETE FROM users, rowcount > 0
delete_user_embeddings(user_id) ==
    SelectSeq(embeddings, LAMBDA e : e.user_id # user_id)

delete_user_users(user_id, owner_id) ==
    SelectSeq(users, LAMBDA u :
        ~(u.user_id = user_id /\ (owner_id = NoOwner \/ u.owner_id = owner_id)))

DeleteUser(user_id, owner_id) ==
    /\ IF DeleteAllowed(user_id, owner_id)
       THEN /\ embeddings' = delete_user_embeddings(user_id)
            /\ users' = delete_user_users(user_id, owner_id)
       ELSE UNCHANGED << users, embeddings >>       \* lines 297-302: return False
    /\ lastOp' = [op |-> "delete_user", user_id |-> user_id,
                  returned |-> DeleteAllowed(user_id, owner_id)
                               /\ Len(delete_user_users(user_id, owner_id)) < Len(users)]
    /\ Unobserved
    /\ UNCHANGED << verifierCfg, helperVars, liveVars >>

(***************************************************************************)
(* Callers of the matcher outside the live loops.                          *)
(***************************************************************************)

\* _verify_from_image (main.py:395, gui_app.py:1137), streamlit_app.py:332:
\* the embedding is not None, the call is verify_with_database(embedding, db)
VerifyFromImage(embedding) ==
    /\ LET list == get_all_users(MatcherScope)
       IN  lastMatch' = [called |-> TRUE, query |-> embedding, list |-> list,
                         result |-> verify_with_database(embedding, list)]
    /\ apiResponse' = NoResponse
    /\ lastOp' = NoOp
    /\ UNCHANGED << storeVars, verifierCfg, helperVars, liveVars >>

\* api.py verify_face, for a request the token check let through.  Line 347
\* calls verifier.verify_with_database(embedding, db, owner_id=g.account_id);
\* the parameters of Verifier.verify_with_database are (self, query_embedding,
\* db_manager), so Python raises TypeError before the matcher's body runs and
\* Flask answers 500.
ApiVerifyFace(account_id, faces, embedding) ==
    /\ apiResponse' =
         IF ~faces
         THEN [account |-> account_id, status |-> 400, kind |-> "no_face",
               result |-> NoMatch]
         ELSE IF embedding = NoEmbedding
         THEN [account |-> account_id, status |-> 500, kind |-> "no_embedding",
               result |-> NoMatch]
         ELSE [account |-> account_id, status |-> 500, kind |-> "internal_error",
               result |-> NoMatch]
    /\ lastMatch' = NoCall
    /\ lastOp' = NoOp
    /\ UNCHANGED << storeVars, verifierCfg, helperVars, liveVars >>

(***************************************************************************)
(* Voting stabilizer: Verifier.verify_with_voting and reset_voting.        *)
(***************************************************************************)
\* faulty variant: a deque without maxlen
DequeAppendUnbounded(history, item) == Append(history, item)

\* deque(maxlen=VERIFICATION_FRAMES).append: a full deque drops its oldest item
DequeAppend(history, item) ==
    IF Len(history) >= VERIFICATION_FRAMES
    THEN Append(Tail(history), item)
    ELSE Append(history, item)

\* line 183: sum(1 for r in history if r.get('verified', False))
RECURSIVE CountVerified(_)
CountVerified(history) ==
    IF history = << >> THEN 0
    ELSE (IF Head(history).verified THEN 1 ELSE 0) + CountVerified(Tail(history))

\* faulty variant: collecting until the window holds more than M entries
CollectingOffByOne(history) == Len(history) <= VERIFICATION_MAJORITY

\* line 175: not enough samples yet
Collecting(history) == Len(history) < VERIFICATION_MAJORITY

\* line 186
FinalVerified(verified_votes) == verified_votes >= VERIFICATION_MAJORITY

\* faulty variant: the voted result loses the frame's confidence when it is rejected
VotedResultDropsConfidence(history, result) ==
    IF Collecting(history)
    THEN [voting_status |-> "collecting",
          votes         |-> Len(history),
          votes_needed  |-> VERIFICATION_MAJORITY] @@ result
    ELSE LET verified_votes == CountVerified(history)
         IN  [verified       |-> FinalVerified(verified_votes),
              confidence     |-> IF FinalVerified(verified_votes)
                                 THEN result.confidence ELSE 0,
              voting_status  |-> "complete",
              votes_verified |-> verified_votes,
              votes_total    |-> Len(history)] @@ result

\* lines 175-194: the dict returned, given the history after the append
VotedResult(history, result) ==
    IF Collecting(history)
    THEN [voting_status |-> "collecting",
          votes         |-> Len(history),
          votes_needed  |-> VERIFICATION_MAJORITY] @@ result
    ELSE LET verified_votes == CountVerified(history)
         IN  [verified       |-> FinalVerified(verified_votes),
              voting_status  |-> "complete",
              votes_verified |-> verified_votes,
              votes_total    |-> Len(history)] @@ result

\* faulty variant: the history takes the result after the vote rewrote its verified flag
HistoryAfterVoted(history, result) ==
    DequeAppend(history, [ k \in DOMAIN result |->
        IF k = "verified"
        THEN VotedResult(DequeAppend(history, result), result).verified
        ELSE result[k] ])

\* line 173: the history takes a copy of the result as the matcher returned it
HistoryAfter(history, result) == DequeAppend(history, result)

\* faulty variant: a reset that keeps the newest vote
ResetKeepsNewest ==
    IF verification_history = << >> THEN << >>
    ELSE << verification_history[Len(verification_history)] >>

\* lines 196-198: self.verification_history.clear()
reset_voting == << >>

(***************************************************************************)
(* One processed frame of a live loop (main.py:455-490,                    *)
(* gui_app.py:1005-1050).                                                  *)
(***************************************************************************)
\* faces found, embedding generated: match, vote, hand the result to the display
MatchAndVote(embedding, list) ==
    LET result  == verify_with_database(embedding, list)
        history == HistoryAfter(verification_history, result)
        shown   == VotedResult(history, result)
    IN  /\ verification_history' = history
        /\ sinceReset' = Append(sinceReset, result)
        /\ asked' = Append(asked, embedding)
        /\ reported' = shown.voting_status
        /\ frame' = [kind |-> "result", raw |-> result, shown |-> shown]

\* faulty variant: a frame without a face counts as a vote against
NoFaceHistoryFalseVote(history) == DequeAppend(history, NoMatch)

\* main.py:488-490, gui_app.py:1044-1050: the else branch of "if faces"
NoFaceHistory(history) == reset_voting

\* no face in the frame: the voting is reset, nothing is voted
NoFaceFrame ==
    /\ verification_history' = NoFaceHistory(verification_history)
    /\ sinceReset' = << >>
    /\ asked' = << >>
    /\ reported' = "none"
    /\ frame' = [kind |-> "no_face", votes_before |-> Len(verification_history)]

\* faulty variant: a frame whose embedding failed resets the voting
NoEmbeddingHistoryReset(history) == << >>

\* main.py:463-487, gui_app.py:1012-1042: "if embedding is not None" has no
\* else branch
NoEmbeddingHistory(history) == history

\* a face, but generate_embedding returned None: the matcher is not called,
\* nothing is voted
NoEmbeddingFrame ==
    /\ verification_history' = NoEmbeddingHistory(verification_history)
    /\ frame' = [kind |-> "no_embedding"]
    /\ UNCHANGED << sinceReset, asked, reported >>

\* the session's first statement on the verifier
StartVoting ==
    /\ verification_history' = reset_voting
    /\ sinceReset' = << >>
    /\ asked' = << >>
    /\ reported' = "none"
    /\ frame' = [kind |-> "start", votes_before |-> Len(verification_history)]

\* the embeddings the camera shows in a live session
LiveQueries == {EA, EB, EC}

(***************************************************************************)
(* CLI: FaceVerificationSystem.live_verification / _verify_from_camera.    *)
(***************************************************************************)
CliStart ==
    /\ app = "cli" /\ session = "idle"
    /\ users # << >>                       \* main.py:317-321
    /\ StartVoting
    /\ session' = "running"
    /\ UNCHANGED << storeVars, verifierCfg, helperVars, matchVars, hostVars, enrollVars, camera_running,
                    popup_shown, btn_live_verify >>

\* the loop leaves on Q/ESC after showing the frame
CliAfterFrame(quit) ==
    /\ session' = IF quit THEN "idle" ELSE "running"
    /\ UNCHANGED << storeVars, verifierCfg, helperVars, matchVars, hostVars, enrollVars, camera_running,
                    popup_shown, btn_live_verify >>

CliReadFail ==
    /\ app = "cli" /\ session = "running"
    /\ frame' = [kind |-> "read_fail"]
    /\ session' = "idle"
    /\ UNCHANGED << storeVars, verifierCfg, helperVars, matchVars, hostVars, enrollVars, camera_running,
                    popup_shown, btn_live_verify, verification_history,
                    sinceReset, asked, reported >>

CliNoFace(quit) ==
    /\ app = "cli" /\ session = "running"
    /\ NoFaceFrame
    /\ CliAfterFrame(quit)

CliNoEmbedding(quit) ==
    /\ app = "cli" /\ session = "running"
    /\ NoEmbeddingFrame
    /\ CliAfterFrame(quit)

CliMatch(embedding, quit) ==
    /\ app = "cli" /\ session = "running"
    /\ Len(sinceReset) < MaxFrames
    /\ MatchAndVote(embedding, get_all_users(MatcherScope))
    /\ CliAfterFrame(quit)

(***************************************************************************)
(* GUI: FaceVerificationApp._start_verify_camera, _verify_camera_loop,     *)
(* _stop_camera, _verify_cleanup.  An iteration of the loop whose          *)
(* should_process is false redraws the cached box and changes nothing      *)
(* modelled here.                                                          *)
(***************************************************************************)
GuiStartVerifyCamera ==
    /\ app = "gui" /\ panel = "verify" /\ btn_live_verify = "normal"
    /\ users # << >>                       \* gui_app.py:964-967
    /\ camera_running' = TRUE
    /\ btn_live_verify' = "disabled"
    /\ StartVoting
    /\ session' = "running"
    /\ UNCHANGED << storeVars, verifierCfg, helperVars, matchVars, hostVars, enrollVars, popup_shown >>

GuiNoFace ==
    /\ app = "gui" /\ session = "running" /\ camera_running
    /\ popup_shown' = FALSE
    /\ NoFaceFrame
    /\ UNCHANGED << storeVars, verifierCfg, helperVars, matchVars, hostVars, enrollVars, session,
                    camera_running, btn_live_verify >>

GuiNoEmbedding ==
    /\ app = "gui" /\ session = "running" /\ camera_running
    /\ NoEmbeddingFrame
    /\ UNCHANGED << storeVars, verifierCfg, helperVars, matchVars, hostVars, enrollVars, session,
                    camera_running, popup_shown, btn_live_verify >>

\* lines 1019-1035: the popup, once, when the voted result is verified and complete
ShowsPopup(shown) ==
    shown.verified /\ shown.voting_status = "complete" /\ ~popup_shown

GuiMatch(embedding) ==
    /\ app = "gui" /\ session = "running" /\ camera_running
    /\ Len(sinceReset) < MaxFrames
    /\ MatchAndVote(embedding, get_all_users(MatcherScope))
    /\ popup_shown' = (popup_shown \/ ShowsPopup(frame'.shown))
    /\ camera_running' = (camera_running /\ ~ShowsPopup(frame'.shown))
    /\ UNCHANGED << storeVars, verifierCfg, helperVars, matchVars, hostVars, enrollVars, session, btn_live_verify >>

\* the Stop button, a panel switch, closing the window
GuiStopCamera ==
    /\ app = "gui"
    /\ camera_running' = FALSE
    /\ UNCHANGED << storeVars, verifierCfg, helperVars, matchVars, hostVars, enrollVars, session, popup_shown,
                    btn_live_verify, verification_history, frame, sinceReset, asked,
                    reported >>

\* while self.camera_running fails: camera.stop(), finally: after(0, _verify_cleanup)
GuiLoopExit ==
    /\ app = "gui" /\ session = "running" /\ ~camera_running
    /\ session' = "ended"
    /\ UNCHANGED << storeVars, verifierCfg, helperVars, matchVars, hostVars, enrollVars, camera_running,
                    popup_shown, btn_live_verify, verification_history, frame,
                    sinceReset, asked, reported >>

GuiVerifyCleanup ==
    /\ app = "gui" /\ session = "ended"
    /\ btn_live_verify' = "normal"
    /\ session' = "idle"
    /\ UNCHANGED << storeVars, verifierCfg, helperVars, matchVars, hostVars, enrollVars, camera_running,
                    popup_shown, verification_history, frame, sinceReset, asked,
                    reported >>

(***************************************************************************)
(* Specifications.                                                         *)
(***************************************************************************)
InitVerifier ==
    /\ threshold = VERIFICATION_THRESHOLD
    /\ metric = DISTANCE_METRIC
    /\ verification_history = << >>

InitLive ==
    /\ session = "idle"
    /\ camera_running = FALSE
    /\ popup_shown = FALSE
    /\ btn_live_verify = "normal"
    /\ frame = [kind |-> "none"]
    /\ sinceReset = << >>
    /\ reported = "none"
    /\ asked = << >>
    /\ lastMatch = NoCall
    /\ apiResponse = NoResponse
    /\ lastOp = NoOp

\* no id generated yet, no distance computed
InitHelpers ==
    /\ now = 0
    /\ generated = << >>
    /\ distanceCall = NoDistanceCall

\* the enrollment forms are empty, no enrollment camera runs
InitEnroll ==
    /\ btn_webcam = "normal"
    /\ enrollment = [c \in Enrollers |-> NoSession]

\* The database file outlives the program: a live session starts on a store
\* that earlier enrollments filled.
UserRow(user_id, name, owner_id, created_at) ==
    [user_id |-> user_id, name |-> name, owner_id |-> owner_id,
     created_at |-> created_at]
EmbRow(user_id, embedding) == [user_id |-> user_id, embedding |-> embedding]

LiveStores ==
    { [users      |-> << UserRow("u1", "alice", NoOwner, 0),
                         UserRow("u2", "bob", NoOwner, 1) >>,
       embeddings |-> << EmbRow("u1", EB), EmbRow("u2", EC) >>],
      [users      |-> << UserRow("u1", "alice", NoOwner, 0) >>,
       embeddings |-> << >>] }

(***************************************************************************)
(* GUI: the panels and the enrollment camera (gui_app.py:656-766).  The    *)
(* camera loops are threads; self.camera_running is the only thing that    *)
(* stops them, and nothing waits for a loop to end.                        *)
(***************************************************************************)
Panels == {"home", "enroll", "verify", "users"}

\* the loop threads that have started and not yet left their while loop
VerifyLoopAlive == session = "running"
EnrollLoopAlive == btn_webcam = "disabled"

\* _show_home_panel, _show_enroll_panel, _show_verify_panel, _show_users_panel:
\* _hide_all_panels calls _stop_camera; the enroll panel resets its form
GuiShowPanel(p) ==
    /\ app = "gui"
    /\ panel' = p
    /\ camera_running' = FALSE
    /\ enrollment' = IF p = "enroll" THEN [enrollment EXCEPT !["g1"] = NoSession]
                     ELSE enrollment
    /\ UNCHANGED << storeVars, verifierCfg, helperVars, matchVars, hostVars, btn_webcam, session,
                    popup_shown, btn_live_verify, verification_history, frame,
                    sinceReset, asked, reported >>

\* _start_enroll_camera, the name valid: the thread of _enroll_camera_loop starts
GuiStartEnrollCamera ==
    /\ app = "gui" /\ panel = "enroll" /\ btn_webcam = "normal"
    /\ camera_running' = TRUE
    /\ btn_webcam' = "disabled"
    /\ UNCHANGED << storeVars, verifierCfg, helperVars, matchVars, hostVars, panel, enrollment,
                    session, popup_shown, btn_live_verify, verification_history,
                    frame, sinceReset, asked, reported >>

\* _enroll_camera_loop: while self.camera_running fails, finally: btn_webcam normal
GuiEnrollLoopExit ==
    /\ app = "gui" /\ EnrollLoopAlive /\ ~camera_running
    /\ btn_webcam' = "normal"
    /\ UNCHANGED << storeVars, verifierCfg, helperVars, matchVars, hostVars, panel, enrollment,
                    session, camera_running, popup_shown, btn_live_verify,
                    verification_history, frame, sinceReset, asked, reported >>

(***************************************************************************)
(* Enrollment: gui_app.py _capture_frame, _enroll_from_files,              *)
(* _save_enrollment; main.py enroll_user; api.py enroll_user;              *)
(* streamlit_app.py show_enroll_page.  A face image is identified with     *)
(* what generate_embedding returns for it (NoEmbedding: None).  The forms  *)
(* are those of GUI processes whose enrollment panel is shown and whose    *)
(* camera delivers frames; the User ID entry is typed, not generated.      *)
(***************************************************************************)
EnrollFaces == {EA, EB, ED}

\* everything an enrollment leaves alone besides the store and the forms
cameraVars == << verification_history, hostVars, session, camera_running,
                 popup_shown, btn_live_verify, frame, sinceReset, reported, asked,
                 panel, btn_webcam >>

\* gui_app.py:796, api.py:281, streamlit_app.py:280
is_duplicate(result) == result.distance < DUPLICATE_THRESHOLD

\* the embeddings generated for the captured faces, the failures dropped
Generated(captured_faces) == SelectSeq(captured_faces, LAMBDA f : f # NoEmbedding)

\* the rows the add_embedding calls of an enrollment store: the calls whose
\* INSERT raises (failed) return None and store nothing
StoredRows(user_id, embs, failed) ==
    LET idx == SelectSeq([i \in 1..Len(embs) |-> i], LAMBDA i : i \notin failed)
    IN  [k \in 1..Len(idx) |-> EmbRow(user_id, embs[idx[k]])]

\* add_user(user_id, name) and add_embedding for each embedding; neither
\* return value is read (main.py:156-160, gui_app.py:933-936)
EnrollStore(user_id, owner_id, embs, at, failed) ==
    /\ users' = add_user(user_id, NameOf[user_id], owner_id, at)
    /\ embeddings' = embeddings \o StoredRows(user_id, embs, failed)

\* what an enrollment reported: success (returned) or an error
EnrollOps == {"gui_enroll", "cli_enroll", "streamlit_enroll"}
Reports(op, user_id, success) ==
    lastOp' = [op |-> op, user_id |-> user_id, returned |-> success]

\* _show_enroll_panel / Reset: the form is reset; the user types a User ID
GuiOpenEnrollment(c, user_id) ==
    /\ enrollment[c].saving = ""
    /\ enrollment' = [enrollment EXCEPT ![c] = [NoSession EXCEPT !.entry_user_id = user_id]]
    /\ Unobserved /\ lastOp' = NoOp
    /\ UNCHANGED << storeVars, verifierCfg, helperVars, cameraVars >>

\* the form after a sample was appended (lines 813-835)
Accept(s, face, how) ==
    [s EXCEPT !.captured_faces = Append(@, face), !.accepted = Append(@, how)]

\* _capture_frame: faces says whether the detector finds a face in the frame,
\* face is the largest one
capture_frame(s, faces, face) ==
    IF ~faces THEN s                                        \* lines 776-778
    ELSE IF s.captured_faces = << >> /\ face # NoEmbedding  \* lines 783, 790
    THEN LET result == verify_with_database(face, get_all_users(MatcherScope))
         IN  IF is_duplicate(result) THEN s                  \* lines 798-809
             ELSE Accept(s, face, "checked")
    ELSE Accept(s, face, IF s.captured_faces = << >> THEN "unchecked" ELSE "later")

GuiCaptureFrame(c, faces, face) ==
    /\ enrollment[c].saving = ""
    /\ Len(enrollment[c].captured_faces) < MaxSamples
    /\ enrollment' = [enrollment EXCEPT ![c] = capture_frame(@, faces, face)]
    /\ Unobserved /\ lastOp' = NoOp
    /\ UNCHANGED << storeVars, verifierCfg, helperVars, cameraVars >>

\* _enroll_from_files with one file that holds a face: no duplicate check
GuiEnrollFromFiles(c, face) ==
    /\ enrollment[c].saving = ""
    /\ Len(enrollment[c].captured_faces) < MaxSamples
    /\ enrollment' = [enrollment EXCEPT ![c] = Accept(@, face, "file")]
    /\ Unobserved /\ lastOp' = NoOp
    /\ UNCHANGED << storeVars, verifierCfg, helperVars, cameraVars >>

\* _save_enrollment on the Tk thread (lines 900-945): refused when the id
\* exists; else the thread of process() starts with user_id in its closure.
\* The form is left alone while the thread runs.
GuiSaveEnrollment(c) ==
    LET s == enrollment[c]
    IN  /\ s.saving = ""
        /\ s.captured_faces # << >>
        /\ s.entry_user_id \in UserIds
        /\ IF user_exists(s.entry_user_id)
           THEN /\ UNCHANGED enrollment
                /\ Reports("gui_enroll", s.entry_user_id, FALSE)
           ELSE /\ enrollment' = [enrollment EXCEPT ![c].saving = s.entry_user_id]
                /\ lastOp' = NoOp
        /\ Unobserved
        /\ UNCHANGED << storeVars, verifierCfg, helperVars, cameraVars >>

\* process() (lines 920-943): refused when no embedding could be generated;
\* else add_user and the add_embedding calls, then _enrollment_complete
\* shows "User enrolled successfully!" and resets the form
GuiSaveProcess(c, at, failed) ==
    LET s    == enrollment[c]
        embs == Generated(s.captured_faces)
    IN  /\ s.saving # ""
        /\ at \in 0..MaxClock /\ ClockReads(at)
        /\ Len(embeddings) + Len(embs) <= MaxEmbRows
        /\ IF embs = << >>
           THEN /\ UNCHANGED storeVars
                /\ enrollment' = [enrollment EXCEPT ![c].saving = ""]
                /\ Reports("gui_enroll", s.saving, FALSE)
           ELSE /\ EnrollStore(s.saving, NoOwner, embs, at, failed)
                /\ enrollment' = [enrollment EXCEPT ![c] = NoSession]
                /\ Reports("gui_enroll", s.saving, TRUE)
        /\ Unobserved
        /\ UNCHANGED << verifierCfg, helperVars, cameraVars >>

\* main.py enroll_user, lines 92-101: the id is typed and tested with
\* user_exists before a single image is taken
CliEnrollStart(user_id) ==
    /\ enrollment["cli"].saving = ""
    /\ IF user_exists(user_id)
       THEN /\ UNCHANGED enrollment
            /\ Reports("cli_enroll", user_id, FALSE)
       ELSE /\ enrollment' = [enrollment EXCEPT !["cli"].saving = user_id]
            /\ lastOp' = NoOp
    /\ Unobserved
    /\ UNCHANGED << storeVars, verifierCfg, helperVars, cameraVars >>

\* main.py enroll_user, lines 103-169: the images, the embeddings, add_user,
\* add_embedding, "User enrolled successfully!"; the matcher is not called
CliEnrollUser(captured_faces, at, failed) ==
    LET user_id == enrollment["cli"].saving
        embs    == Generated(captured_faces)
    IN  /\ user_id # ""
        /\ at \in 0..MaxClock /\ ClockReads(at)
        /\ Len(embeddings) + Len(embs) <= MaxEmbRows
        /\ IF embs = << >>
           THEN /\ UNCHANGED storeVars
                /\ Reports("cli_enroll", user_id, FALSE)
           ELSE /\ EnrollStore(user_id, NoOwner, embs, at, failed)
                /\ Reports("cli_enroll", user_id, TRUE)
        /\ enrollment' = [enrollment EXCEPT !["cli"].saving = ""]
        /\ Unobserved
        /\ UNCHANGED << verifierCfg, helperVars, cameraVars >>

\* streamlit_app.py runs on a database file of its own (web_face_db.sqlite,
\* SimpleDBManager): under SpecWeb users and embeddings are its tables.
\* show_enroll_page, one run of the script with a photo
\* that holds a face: the duplicate check, then Save User if it was clicked;
\* add_embedding only after add_user returned True, its own result not read
StreamlitEnroll(user_id, embedding, save, at, failed) ==
    LET result == verify_with_database(embedding, get_all_users(MatcherScope))
    IN  /\ at \in 0..MaxClock /\ ClockReads(at)
        /\ Len(embeddings) < MaxEmbRows
        /\ IF embedding = NoEmbedding \/ is_duplicate(result) \/ ~save
           THEN UNCHANGED storeVars /\ lastOp' = NoOp
           ELSE IF user_exists(user_id)
           THEN UNCHANGED storeVars /\ Reports("streamlit_enroll", user_id, FALSE)
           ELSE /\ EnrollStore(user_id, NoOwner, << embedding >>, at, failed)
                /\ Reports("streamlit_enroll", user_id, TRUE)
        /\ Unobserved
        /\ UNCHANGED << verifierCfg, helperVars, cameraVars, enrollment >>

\* api.py enroll_user, for a request the token check let through, name and
\* image given.  Line 280 passes owner_id= to Verifier.verify_with_database,
\* which has no such parameter: TypeError, Flask answers 500, nothing is
\* stored.
ApiEnrollUser(account_id, faces, embedding) ==
    /\ apiResponse' =
         IF ~faces
         THEN [account |-> account_id, status |-> 400, kind |-> "no_face",
               result |-> NoMatch]
         ELSE IF embedding = NoEmbedding
         THEN [account |-> account_id, status |-> 500, kind |-> "no_embedding",
               result |-> NoMatch]
         ELSE [account |-> account_id, status |-> 500, kind |-> "internal_error",
               result |-> NoMatch]
    /\ lastMatch' = NoCall
    /\ lastOp' = NoOp
    /\ UNCHANGED << storeVars, verifierCfg, helperVars, cameraVars, enrollment >>

\* Spec: a live verification session of the CLI or of the GUI
Init ==
    /\ app \in {"cli", "gui"}
    /\ sorter \in Sorters
    /\ InitEnroll
    /\ panel = "verify"
    /\ \E st \in LiveStores : users = st.users /\ embeddings = st.embeddings
    /\ InitVerifier
    /\ InitHelpers
    /\ InitLive

Next ==
    \/ CliStart
    \/ CliReadFail
    \/ \E quit \in BOOLEAN : CliNoFace(quit)
    \/ \E quit \in BOOLEAN : CliNoEmbedding(quit)
    \/ \E e \in LiveQueries, quit \in BOOLEAN : CliMatch(e, quit)
    \/ GuiStartVerifyCamera
    \/ GuiNoFace
    \/ GuiNoEmbedding
    \/ \E e \in LiveQueries : GuiMatch(e)
    \/ GuiStopCamera
    \/ GuiLoopExit
    \/ GuiVerifyCleanup

Spec == Init /\ [][Next]_vars

\* SpecMatch: the store's operations and the matcher's callers, from an empty database
InitMatch ==
    /\ app = "cli"
    /\ sorter \in Sorters
    /\ InitEnroll
    /\ panel = "home"
    /\ users = << >>
    /\ embeddings = << >>
    /\ InitVerifier
    /\ InitHelpers
    /\ InitLive

NextMatch ==
    \/ \E u \in UserIds, o \in Owners, at \in 0..MaxClock : AddUser(u, NameOf[u], o, at)
    \/ \E u \in UserIds, e \in StoredEmbeddings, x \in BOOLEAN : AddEmbedding(u, e, x)
    \/ \E u \in UserIds, o \in Owners : DeleteUser(u, o)
    \/ \E e \in Embeddings : VerifyFromImage(e)
    \/ \E a \in ApiCallers, f \in BOOLEAN, e \in {EB, NoEmbedding} :
          ApiVerifyFace(a, f, e)

SpecMatch == InitMatch /\ [][NextMatch]_vars

\* SpecGui: the GUI's panels and camera loops
InitGui ==
    /\ app = "gui"
    /\ sorter \in Sorters
    /\ \E st \in LiveStores : users = st.users /\ embeddings = st.embeddings
    /\ InitVerifier
    /\ InitHelpers
    /\ InitLive
    /\ InitEnroll
    /\ panel = "home"

NextGui ==
    \/ \E p \in Panels : GuiShowPanel(p)
    \/ GuiStartEnrollCamera
    \/ GuiEnrollLoopExit
    \/ GuiStartVerifyCamera
    \/ GuiNoFace
    \/ GuiNoEmbedding
    \/ \E e \in {EB} : GuiMatch(e)
    \/ GuiStopCamera
    \/ GuiLoopExit
    \/ GuiVerifyCleanup

SpecGui == InitGui /\ [][NextGui]_vars

\* SpecEnroll: the enrollment paths of the programs that open
\* config.DATABASE_PATH (GUI, CLI, API), the database empty at the start.
\* The GUI's camera shows every face of EnrollFaces, the CLI photographs EB,
\* the uploaded file shows EA.
InitEnrollment ==
    /\ app = "gui"
    /\ sorter = "rowid"
    /\ users = << >>
    /\ embeddings = << >>
    /\ InitVerifier
    /\ InitHelpers
    /\ InitLive
    /\ InitEnroll
    /\ panel = "enroll"

\* the add_embedding calls of an enrollment of n embeddings that fail
Failures(n) == SUBSET (1..n)

NextEnroll ==
    \/ \E u \in UserIds : GuiOpenEnrollment("g1", u)
    \/ \E f \in BOOLEAN, e \in EnrollFaces \cup {NoEmbedding} :
          GuiCaptureFrame("g1", f, e)
    \/ \E e \in {EA} : GuiEnrollFromFiles("g1", e)
    \/ GuiSaveEnrollment("g1")
    \/ \E at \in 0..MaxClock, x \in Failures(MaxSamples) : GuiSaveProcess("g1", at, x)
    \/ \E u \in UserIds : CliEnrollStart(u)
    \/ \E e \in {EB, NoEmbedding}, at \in 0..MaxClock, x \in Failures(1) :
          CliEnrollUser(<< e >>, at, x)
    \/ \E a \in ApiCallers, f \in BOOLEAN, e \in {EB, NoEmbedding} :
          ApiEnrollUser(a, f, e)
    \/ \E a \in ApiCallers, f \in BOOLEAN, e \in {EB, NoEmbedding} :
          ApiVerifyFace(a, f, e)

SpecEnroll == InitEnrollment /\ [][NextEnroll]_vars

\* SpecWeb: the Streamlit pages on their database: Enroll User, Verify Face
\* (streamlit_app.py:332) and the delete of Manage Users
InitWeb ==
    /\ app = "web"
    /\ sorter \in Sorters
    /\ users = << >>
    /\ embeddings = << >>
    /\ InitVerifier
    /\ InitHelpers
    /\ InitLive
    /\ InitEnroll
    /\ panel = "home"

\* SimpleDBManager.delete_user: DELETE FROM embeddings, DELETE FROM users,
\* rowcount > 0, the statements of DatabaseManager.delete_user without an owner
WebDeleteUser(user_id) == DeleteUser(user_id, NoOwner)

NextWeb ==
    \/ \E u \in UserIds, e \in EnrollFaces \cup {NoEmbedding}, sv \in BOOLEAN,
          at \in 0..MaxClock, x \in Failures(1) : StreamlitEnroll(u, e, sv, at, x)
    \/ \E e \in EnrollFaces : VerifyFromImage(e)
    \/ \E u \in UserIds : WebDeleteUser(u)

SpecWeb == InitWeb /\ [][NextWeb]_vars

(***************************************************************************)
(* Generated user ids: utils/helpers.generate_user_id (main.py:95) and the *)
(* same expression in api.py:290, gui_app.py:816, streamlit_app.py:251.    *)
(***************************************************************************)
TicksPerSecond == 2        \* the clock advances in steps of half a second

\* datetime.now().strftime("%Y%m%d%H%M%S"): the second the tick lies in
strftime(t) == t \div TicksPerSecond

\* f"user_{timestamp}"
generate_user_id(t) == << "user_", strftime(t) >>

\* the places that generate an id
IdCallers == {"cli", "api", "gui", "streamlit"}

\* time passes
Tick ==
    /\ now < MaxNow
    /\ now' = now + 1
    /\ UNCHANGED << storeVars, verifierCfg, liveVars, matchVars, generated, distanceCall >>

\* an enrollment with the User ID left empty asks for an id
GenerateUserId(by) ==
    /\ Len(generated) < MaxIds
    /\ generated' = Append(generated, [by |-> by, user_id |-> generate_user_id(now)])
    /\ UNCHANGED << storeVars, verifierCfg, liveVars, matchVars, now, distanceCall >>

\* SpecIds: ids are generated while time passes
InitIds ==
    /\ app = "cli"
    /\ sorter = "rowid"
    /\ users = << >>
    /\ embeddings = << >>
    /\ InitVerifier
    /\ InitHelpers
    /\ InitLive
    /\ InitEnroll
    /\ panel = "home"

NextIds ==
    \/ Tick
    \/ \E by \in IdCallers : GenerateUserId(by)

SpecIds == InitIds /\ [][NextIds]_vars

(***************************************************************************)
(* Calls of Verifier.calculate_distance, the verifier constructed with any *)
(* of its metrics.                                                         *)
(***************************************************************************)
CalculateDistance(embedding1, embedding2) ==
    /\ distanceCall' =
          [called |-> TRUE, embedding1 |-> embedding1, embedding2 |-> embedding2,
           outcome |-> calculate_distance_outcome(metric, embedding1, embedding2)]
    /\ UNCHANGED << storeVars, verifierCfg, liveVars, matchVars, now, generated >>

\* SpecDistance: Verifier(threshold, metric), then calls of calculate_distance
InitDistance ==
    /\ app = "cli"
    /\ sorter = "rowid"
    /\ users = << >>
    /\ embeddings = << >>
    /\ threshold = VERIFICATION_THRESHOLD
    /\ metric \in Metrics
    /\ verification_history = << >>
    /\ InitHelpers
    /\ InitLive
    /\ InitEnroll
    /\ panel = "home"

NextDistance ==
    \E e1 \in DistanceInputs, e2 \in DistanceInputs : CalculateDistance(e1, e2)

SpecDistance == InitDistance /\ [][NextDistance]_vars

\* SpecRace: two GUI processes enroll from their cameras on the same
\* database file; every face yields an embedding, every INSERT succeeds
NextRace ==
    \/ \E c \in Clients, u \in UserIds : GuiOpenEnrollment(c, u)
    \/ \E c \in Clients, e \in EnrollFaces : GuiCaptureFrame(c, TRUE, e)
    \/ \E c \in Clients : GuiSaveEnrollment(c)
    \/ \E c \in Clients, at \in 0..MaxClock : GuiSaveProcess(c, at, {})

SpecRace == InitEnrollment /\ [][NextRace]_vars

(***************************************************************************)
(* Properties of the voting stabilizer and the live loops (under Spec).    *)
(***************************************************************************)
W == VERIFICATION_FRAMES
M == VERIFICATION_MAJORITY

\* the last W items of a sequence
LastW(seq) == IF Len(seq) <= W THEN seq ELSE SubSeq(seq, Len(seq) - W + 1, Len(seq))

Flags(seq) == [i \in 1..Len(seq) |-> seq[i].verified]
RawVotes(seq) == Cardinality({i \in 1..Len(seq) : seq[i].verified})

\* the last loop iteration matched a frame and voted on it
Voted == frame.kind = "result"

\* a step that appends a vote
AppendsVote == Len(sinceReset') = Len(sinceReset) + 1

\* C1: whenever the window (the raw flags appended since the last reset, at
\* most the last W of them) holds at least M entries, verify_with_voting
\* returns verified = TRUE exactly when at least M of the window's entries
\* are raw-verified; the votes are the matcher's raw flags.
C1_MajorityDecision ==
    (Voted /\ Len(LastW(sinceReset)) >= M)
        => (frame.shown.verified <=> RawVotes(LastW(sinceReset)) >= M)

\* raw flags T,T,T,F,F,F since the reset: the window is T,T,F,F,F, the result is rejected
C1_Witness ==
    /\ Voted
    /\ Flags(sinceReset) = << TRUE, TRUE, TRUE, FALSE, FALSE, FALSE >>
    /\ Flags(verification_history) = << TRUE, TRUE, FALSE, FALSE, FALSE >>
    /\ ~frame.shown.verified

\* C2: the verified flag handed to the display for a frame is TRUE only if
\* at least M frames of the current window were raw-verified; no frame is
\* shown verified while the window holds fewer than M entries.
C2_ShownVerifiedOnlyOnMajority ==
    (Voted /\ frame.shown.verified) => RawVotes(verification_history) >= M

\* C3: the window never holds more than W entries; appending to a full
\* window drops exactly the oldest entry and keeps the others in order.
C3_WindowBounded ==
    /\ [](Len(verification_history) <= W)
    /\ [][AppendsVote =>
            verification_history' =
              (IF Len(verification_history) = W
               THEN Tail(verification_history) ELSE verification_history)
              \o << sinceReset'[Len(sinceReset')] >>]_vars

C3_Witness ==
    /\ Len(sinceReset) > W
    /\ Len(verification_history) = W
    /\ verification_history[1] # verification_history[W]

\* C4: reset_voting empties the window and every live session starts with an
\* empty window: the window holds exactly the results appended since the
\* last reset (the last W of them), none from before it.
C4_ResetClearsWindow ==
    /\ frame.kind = "start" => verification_history = << >>
    /\ verification_history = LastW(sinceReset)

\* a session that starts on a verifier still holding the votes of an earlier one
C4_Witness ==
    /\ frame.kind = "start"
    /\ frame.votes_before >= M
    /\ verification_history = << >>

\* C5: a processed frame with zero faces resets the window to empty and
\* appends no vote.
C5_NoFaceResets ==
    frame.kind = "no_face" => verification_history = << >> /\ sinceReset = << >>

C5_Witness ==
    /\ frame.kind = "no_face"
    /\ frame.votes_before > 0
    /\ verification_history = << >>

\* C6: voting_status is 'collecting' exactly when the window size after the
\* append is below M and 'complete' otherwise; once 'complete' was reported
\* it is reported for every later frame until the next reset.
C6_TwoStateMachine ==
    /\ [](Voted =>
            /\ frame.shown.voting_status \in {"collecting", "complete"}
            /\ frame.shown.voting_status = "collecting"
                 <=> Len(verification_history) < M)
    /\ [][reported = "complete" =>
            \/ reported' = "complete"
            \/ reported' = "none" /\ verification_history' = << >>]_vars
    /\ [][(reported' = "collecting" /\ reported # "collecting") =>
            reported = "none"]_vars

C6_Witness ==
    /\ Voted
    /\ frame.shown.voting_status = "complete"
    /\ Len(sinceReset) > M

\* C7: verify_with_voting returns the frame's distance, confidence, user_id
\* and user_name unchanged; of the matcher's fields only verified may change.
C7_PassThrough ==
    Voted =>
        /\ \A k \in DOMAIN frame.raw \ {"verified"} :
              k \in DOMAIN frame.shown /\ frame.shown[k] = frame.raw[k]
        /\ {"distance", "confidence", "user_id", "user_name", "verified"}
              \subseteq DOMAIN frame.shown

\* a frame whose verified flag the vote replaced, the matched identity kept
C7_Witness ==
    /\ Voted
    /\ frame.shown.verified # frame.raw.verified
    /\ frame.raw.user_id # None
    /\ frame.shown.user_id = frame.raw.user_id

(***************************************************************************)
(* Properties of the matcher (under SpecMatch).                            *)
(***************************************************************************)
\* the identities a list enumerates
ListedIds(list) == {list[i].user_id : i \in 1..Len(list)}

\* the rows of the embeddings table owned by a set of identities
VectorRows(ids) == {i \in 1..Len(embeddings) : embeddings[i].user_id \in ids}

\* the identities of a list that own a vector at distance d from q
Attaining(q, list, d) ==
    {embeddings[i].user_id : i \in
        {j \in VectorRows(ListedIds(list)) :
            calculate_distance(q, embeddings[j].embedding) = d}}

\* every order in which the rows of a list can be enumerated
Reorderings(list) ==
    LET n == Len(list)
    IN  {[i \in 1..n |-> list[p[i]]] :
            p \in {q \in [1..n -> 1..n] : IsPermutation(q, n)}}

\* C8: verify_with_database returns as distance the minimum of
\* calculate_distance(query, v) over all stored vectors v of all enumerated
\* identities and as user_id an identity that owns a vector attaining it, in
\* whatever order the identities are enumerated when a single identity
\* attains the minimum.
C8_GlobalMinimum ==
    lastMatch.called =>
        LET q    == lastMatch.query
            r    == lastMatch.result
            rows == VectorRows(ListedIds(lastMatch.list))
        IN  /\ \A i \in rows : r.distance <= calculate_distance(q, embeddings[i].embedding)
            /\ rows # {} =>
                  /\ r.user_id \in Attaining(q, lastMatch.list, r.distance)
                  /\ \A l \in Reorderings(lastMatch.list) :
                        /\ verify_with_database(q, l).distance = r.distance
                        /\ Cardinality(Attaining(q, lastMatch.list, r.distance)) = 1
                              => verify_with_database(q, l).user_id = r.user_id
            /\ rows = {} => r.distance = Inf

\* two identities, the second enumerated one closer, the first one owning two vectors
C8_Witness ==
    /\ lastMatch.called
    /\ Len(lastMatch.list) = 2
    /\ lastMatch.result.user_id = lastMatch.list[2].user_id
    /\ get_embeddings(lastMatch.list[1].user_id) # << >>
    /\ Cardinality(Attaining(lastMatch.query, lastMatch.list, lastMatch.result.distance)) = 1

\* the owner of an identity
OwnerOf(user_id) ==
    LET i == CHOOSE j \in 1..Len(users) : users[j].user_id = user_id
    IN  users[i].owner_id

C10_StrictThreshold ==
    lastMatch.called =>
        (lastMatch.result.verified <=> lastMatch.result.distance < threshold)

C10_Witness ==
    /\ lastMatch.called
    /\ lastMatch.result.distance = threshold
    /\ ~lastMatch.result.verified
    /\ lastMatch.result.user_id # None

(***************************************************************************)
(* Tie-break, empty scope, determinism.                                    *)
(***************************************************************************)
\* the first identity of a list that owns a vector at distance d from q
FirstAttaining(q, list, d) ==
    LET i == CHOOSE j \in 1..Len(list) :
                /\ list[j].user_id \in Attaining(q, list, d)
                /\ \A k \in 1..(j - 1) : list[k].user_id \notin Attaining(q, list, d)
    IN  list[i].user_id

\* the orders in which the rows of a table can have been inserted: the clock
\* never runs back
InsertionOrders(rows) ==
    {l \in Reorderings(rows) :
        \A i, j \in 1..Len(l) : i < j => l[i].created_at <= l[j].created_at}

\* C11: among the identities at the minimum distance verify_with_database
\* returns the one get_all_users enumerates first, and the enumeration is a
\* function of the rows the store holds: the same rows enumerate in the same
\* order whichever of them was inserted first.
C11_TieBreakFirstEnumerated ==
    /\ (lastMatch.called /\ lastMatch.result.user_id # None) =>
          lastMatch.result.user_id =
             FirstAttaining(lastMatch.query, lastMatch.list, lastMatch.result.distance)
    /\ \A l \in InsertionOrders(users) :
          OrderByCreatedAtDesc(l, sorter) = get_all_users(NoOwner)

\* C12: with no identity, or no enumerated identity holding a vector,
\* verify_with_database returns user_id None, user_name None, distance +inf,
\* confidence 0, verified False; an identity without vectors is never the
\* match.
C12_NothingToCompare ==
    lastMatch.called =>
        /\ VectorRows(ListedIds(lastMatch.list)) = {} =>
              lastMatch.result =
                 [verified |-> FALSE, distance |-> Inf, confidence |-> 0,
                  user_id |-> None, user_name |-> None]
        /\ lastMatch.result.user_id # None =>
              get_embeddings(lastMatch.result.user_id) # << >>

\* identities are enumerated, none of them holds a vector
C12_Witness ==
    /\ lastMatch.called
    /\ lastMatch.query # NoEmbedding
    /\ lastMatch.list # << >>
    /\ embeddings = << >>
    /\ lastMatch.result.distance = Inf

C19_UniqueUserId ==
    /\ [](\A i, j \in 1..Len(users) : i # j => users[i].user_id # users[j].user_id)
    /\ [][(lastOp'.op = "add_user" /\ user_exists(lastOp'.user_id)) =>
            /\ ~lastOp'.returned
            /\ users' = users
            /\ embeddings' = embeddings]_vars

\* add_user refused for an identity another account owns and that holds vectors
C19_Witness ==
    /\ lastOp.op = "add_user"
    /\ ~lastOp.returned
    /\ OwnerOf(lastOp.user_id) # NoOwner
    /\ get_embeddings(lastOp.user_id) # << >>

\* C20: after delete_user(user_id) returned True the identity does not
\* exist, it has no embeddings, and the embeddings of every other identity
\* are the ones held before.
C20_DeleteCascades ==
    [][(lastOp'.op = "delete_user" /\ lastOp'.returned) =>
        /\ EmbeddingsOf(embeddings', lastOp'.user_id) = << >>
        /\ \A i \in 1..Len(users') : users'[i].user_id # lastOp'.user_id
        /\ \A u \in UserIds \ {lastOp'.user_id} :
              EmbeddingsOf(embeddings', u) = EmbeddingsOf(embeddings, u)]_vars

\* an identity deleted while another identity keeps its vectors
C20_Witness ==
    /\ lastOp.op = "delete_user"
    /\ lastOp.returned
    /\ ~user_exists(lastOp.user_id)
    /\ embeddings # << >>

(***************************************************************************)
(* Enrollment and the duplicate guard.                                     *)
(***************************************************************************)
\* the vector an identity was enrolled with first
FirstVector(user_id) == get_embeddings(user_id)[1]

\* C14: no enrollment stores a new identity whose first embedding lies at a
\* distance below DUPLICATE_THRESHOLD from a vector of an identity the store
\* already holds.
C14_DuplicateRefused ==
    [][Len(users') > Len(users) =>
        LET new   == users'[Len(users')].user_id
            first == EmbeddingsOf(embeddings', new)[1]
        IN  ~is_duplicate(verify_with_database(first, get_all_users(MatcherScope)))]_vars

\* C15: in a GUI enrollment the duplicate guard runs on the first sample and
\* only there: the first sample of the form was accepted after the guard ran
\* and found no duplicate, every later sample was captured without a check.
C15_GuardOnFirstSample ==
    \A c \in Clients :
        LET s == enrollment[c]
        IN  s.accepted # << >> =>
               /\ s.accepted[1] = "checked"
               /\ \A i \in 2..Len(s.accepted) : s.accepted[i] = "later"

\* C16: a match the duplicate guard flags (distance < DUPLICATE_THRESHOLD)
\* has verified = TRUE under the verifier's threshold.
C16_ThresholdMonotone ==
    (lastMatch.called /\ is_duplicate(lastMatch.result)) => lastMatch.result.verified

\* a match at a distance between 0 and the duplicate threshold
C16_Witness ==
    /\ lastMatch.called
    /\ is_duplicate(lastMatch.result)
    /\ lastMatch.result.distance > 0
    /\ lastMatch.result.verified

\* C17: the duplicate check and the creation of the identity are atomic:
\* of two enrollments of the same face under different user ids at most one
\* stores an identity, so no two identities were enrolled with first vectors
\* that are duplicates of each other.
C17_CheckAndCreateAtomic ==
    \A u, v \in UserIds :
        (u # v /\ get_embeddings(u) # << >> /\ get_embeddings(v) # << >>) =>
            calculate_distance(FirstVector(u), FirstVector(v)) >= DUPLICATE_THRESHOLD

\* C18: at most one camera loop thread runs: the verification loop and the
\* enrollment camera loop never both pass their test of camera_running.
C18_OneCameraLoop ==
    ~(VerifyLoopAlive /\ EnrollLoopAlive /\ camera_running)

(***************************************************************************)
(* Ownership and the rows of the store (under SpecMatch).                  *)
(***************************************************************************)
\* the identity exists and the account owns it
OwnedBy(user_id, owner_id) ==
    \E i \in 1..Len(users) :
        users[i].user_id = user_id /\ users[i].owner_id = owner_id

\* C21: delete_user(user_id, owner_id) called for an account that does not
\* own the identity, or for a user_id the table does not hold, returns False
\* and leaves users and embeddings unchanged; whatever an account's call
\* removes, an identity or embeddings, belonged to an identity that account
\* owned.
C21_DeleteOwnerScoped ==
    [][\A u \in UserIds, o \in Accounts :
          DeleteUser(u, o) =>
             /\ ~OwnedBy(u, o) =>
                   /\ ~lastOp'.returned
                   /\ users' = users
                   /\ embeddings' = embeddings
             /\ \A i \in 1..Len(users) :
                   (\A j \in 1..Len(users') : users'[j] # users[i])
                      => users[i].owner_id = o
             /\ \A v \in UserIds :
                   EmbeddingsOf(embeddings', v) # EmbeddingsOf(embeddings, v)
                      => OwnedBy(v, o)]_vars

\* a delete refused for an identity another account owns and that holds vectors
C21_Witness ==
    /\ lastOp.op = "delete_user"
    /\ ~lastOp.returned
    /\ user_exists(lastOp.user_id)
    /\ OwnerOf(lastOp.user_id) \in Accounts
    /\ get_embeddings(lastOp.user_id) # << >>

\* C28: every row of embeddings names an identity the users table holds:
\* add_embedding for a user_id without an identity stores nothing, and
\* add_user, add_embedding and delete_user leave no such row behind.
C28_NoOrphanEmbeddings ==
    \A i \in 1..Len(embeddings) : user_exists(embeddings[i].user_id)

(***************************************************************************)
(* What an enrollment reports and what it stored (under SpecEnroll).       *)
(***************************************************************************)
\* C22: an identity whose enrollment has just reported success owns at
\* least one stored embedding, whichever path enrolled it.
C22_EnrolledOwnsVector ==
    (lastOp.op \in EnrollOps /\ lastOp.returned) =>
        get_embeddings(lastOp.user_id) # << >>

\* C29: an enrollment whose user_id names an identity at the moment it
\* calls add_user (add_user returns False) stores no embedding under that
\* id and does not report success.
C29_NoAttachToExisting ==
    [][(lastOp'.op \in EnrollOps /\ user_exists(lastOp'.user_id)) =>
          /\ EmbeddingsOf(embeddings', lastOp'.user_id)
                = EmbeddingsOf(embeddings, lastOp'.user_id)
          /\ ~lastOp'.returned]_vars

\* C30: an authenticated /api/verify or /api/enroll request whose image
\* holds a face that yields an embedding is answered from the matcher's
\* result (verify: the match; enroll: 409 duplicate or the identity stored),
\* never with an internal error.
C30_ApiReachesMatcher ==
    apiResponse.kind \notin {"none", "no_face", "no_embedding"} =>
        /\ apiResponse.kind \in {"match", "duplicate", "stored"}
        /\ apiResponse.status # 500

(***************************************************************************)
(* The live loops: frames without an embedding, the identity a stabilized  *)
(* acceptance names, the popup (under Spec).                               *)
(***************************************************************************)
\* C23: a processed frame whose face yields no embedding calls the matcher
\* not at all and leaves the voting window as it was: no vote appended, no
\* reset.
C23_NoEmbeddingSkips ==
    [][frame'.kind = "no_embedding" =>
          /\ verification_history' = verification_history
          /\ asked' = asked
          /\ sinceReset' = sinceReset
          /\ reported' = reported]_vars

\* the embedding fails for a frame while the window is full and the voting complete
C23_Witness ==
    /\ frame.kind = "no_embedding"
    /\ Len(verification_history) = W
    /\ reported = "complete"

\* the frames of the window in which the matcher verified the identity
VerifiedFramesOf(user_id) ==
    {i \in 1..Len(verification_history) :
        verification_history[i].verified /\ verification_history[i].user_id = user_id}

\* C26: a live result returned with verified = TRUE and voting_status
\* 'complete' names an identity the matcher verified in at least M frames of
\* the window, the frame it is returned for among them.
C26_AcceptanceNamesVerified ==
    (Voted /\ frame.shown.verified /\ frame.shown.voting_status = "complete") =>
        /\ frame.raw.verified
        /\ Cardinality(VerifiedFramesOf(frame.shown.user_id)) >= M

\* the votes of a window carry a majority of raw-verified frames
Accepts(seq) == Len(LastW(seq)) >= M /\ RawVotes(LastW(seq)) >= M

\* a frame voted since the last reset was already returned verified and complete
EarlierAccepted ==
    \E k \in 1..Len(sinceReset) : Accepts(SubSeq(sinceReset, 1, k))

\* C27: in every GUI live session, the first frame since the session's start
\* (or since the face was last absent) whose voted result is verified and
\* complete shows the ACCESS GRANTED popup and stops the camera loop.
C27_PopupOnFirstAcceptance ==
    [][(/\ app = "gui"
        /\ AppendsVote
        /\ frame'.shown.verified
        /\ frame'.shown.voting_status = "complete"
        /\ ~EarlierAccepted)
          => (~popup_shown /\ popup_shown' /\ ~camera_running')]_vars

(***************************************************************************)
(* The distance engine on vectors of different lengths (under              *)
(* SpecDistance); generated ids (under SpecIds).                           *)
(***************************************************************************)
\* C24: calculate_distance on two vectors, neither None, of different
\* lengths raises a dimension error under every metric and returns no
\* distance; with a None vector it returns +inf and raises nothing.
C24_DimensionMismatchFails ==
    distanceCall.called =>
        LET e1 == distanceCall.embedding1
            e2 == distanceCall.embedding2
        IN  /\ (e1 # NoEmbedding /\ e2 # NoEmbedding /\ Len(e1) # Len(e2)) =>
                  distanceCall.outcome.raised = "ValueError"
            /\ (e1 = NoEmbedding \/ e2 = NoEmbedding) =>
                  distanceCall.outcome = [raised |-> None, distance |-> Inf]

\* C25: every generated user id differs from every id generated before it.
C25_GeneratedIdsDistinct ==
    \A i, j \in 1..Len(generated) :
        i # j => generated[i].user_id # generated[j].user_id

====
